---------------------------- MODULE Spec2Model ----------------------------
(***************************************************************************)
(* PulseRTC SFU (packages/sfu/src/sfu.ts) and its AI hook connector        *)
(* (packages/sfu/src/ai-hook/index.ts) as a state machine.                 *)
(*                                                                         *)
(* JavaScript objects are heap cells named by the index at which they were *)
(* created: a Room object is named by the index of the router it was built *)
(* around (one Room per resolved createRouter), a Peer object by its index *)
(* in peers, an engine handle by its index in routers / transports /       *)
(* producers / consumers.  0 is "absent" (undefined / null).               *)
(*                                                                         *)
(* Every await on the forwarding engine is a suspension point: the call    *)
(* step leaves a "pending" engine entry that carries the locals the        *)
(* continuation captured, and a later step resolves or rejects it.         *)
(***************************************************************************)
EXTENDS Integers, Sequences, FiniteSets, TLC

\* ---------------------------------------------------------------- bounds
NumWorkers    == 2      \* config.worker.numWorkers

RoomIds      == {"r1", "r2"}
PeerIds      == {"p1", "p2"}
TransportIds == {"t1"}

NaN == -1               \* nextWorkerIndex after (i + 1) % 0

VARIABLES
  workers,          \* SFU.workers: sequence of worker handles
  workerObjs,       \* engine: every worker ever spawned, [state]
  initLeft,         \* SFU.init: iterations of its loop still to run
  nextWorkerIndex,  \* SFU.nextWorkerIndex
  process,          \* the Node process: [timers, exited], timers counts the
                    \* setTimeout(() => process.exit(1), 2000) still to fire
  rooms,            \* SFU.rooms: roomId -> Room object (0 absent)
  routers,          \* engine: createRouter requests, [worker, state, roomId, pool]
  roomPeers,        \* Room.peers of the Room built around router i
  peers,            \* Peer objects: [id, transports, producers, consumers]
  transports,       \* engine: transport requests, [router, state, peer, tid]
  producers,        \* engine: produce requests
  consumers,        \* engine: consume requests
  aiHookConfig,     \* SFU.aiHookConfig
  config,           \* AIHookConnector.config
  connectionStatus, \* AIHookConnector.connectionStatus
  probes,           \* GET /health requests, [state]
  posts,            \* POST /stream requests, [state, producerId, roomId, peerId]
  emitted,          \* events emitted so far, in order
  ret               \* the last step taken and what it gave its caller

graphVars == <<rooms, routers, roomPeers, peers, transports, producers, consumers>>
poolVars  == <<workers, workerObjs, initLeft, nextWorkerIndex, process>>
hookVars  == <<aiHookConfig, config, connectionStatus, probes, posts, emitted>>

NoPeers == [p \in PeerIds |-> 0]
NoTransports == [t \in TransportIds |-> 0]

\* The last step taken and what it gave its caller: the operation, its room
\* and peer arguments, its other arguments, and the outcome.  kind is "value",
\* "null", "bool" or "void" for a result handed back in the caller's turn,
\* "throw" for a promise rejected in the caller's turn, "pending" for a
\* promise left to a later step (val names the engine request it waits for),
\* "resolved" / "rejected" for the step that settles such a promise, and
\* "event" for a handler run by an engine notification.
RetA(o, k, v, r, p, a) ==
  [op |-> o, kind |-> k, val |-> v, room |-> r, peer |-> p, args |-> a]
Ret(o, k, v, r, p) == RetA(o, k, v, r, p, <<>>)
RetNone == Ret("none", "none", 0, "", "")

Indices(s) == 1..Len(s)
OpenIn(s)  == {i \in Indices(s) : s[i].state = "open"}

\* rooms.get(roomId)?.peers.get(peerId)?.transports.get(tid), 0 when absent
PeerOf(roomId, peerId) ==
  IF rooms[roomId] = 0 THEN 0 ELSE roomPeers[rooms[roomId]][peerId]
TransportOf(roomId, peerId, tid) ==
  IF PeerOf(roomId, peerId) = 0 THEN 0 ELSE peers[PeerOf(roomId, peerId)].transports[tid]

\* ------------------------------------------------------------ the graph
\* The session graph as one value, so that closePeer / closeRoom / close
\* compose the way the code calls them.
Graph ==
  [rooms |-> rooms, routers |-> routers, roomPeers |-> roomPeers, peers |-> peers,
   transports |-> transports, producers |-> producers, consumers |-> consumers]

\* mutant: the transports are closed but no 'transportclose' handler runs
CloseTransportsNoHandlers(g, T) ==
  LET TT == {t \in T : t # 0 /\ g.transports[t].state = "open"}
      PP == {p \in OpenIn(g.producers) : g.producers[p].transport \in TT}
      CC == {c \in OpenIn(g.consumers) : g.consumers[c].transport \in TT}
  IN [g EXCEPT
        !.transports = [t \in Indices(g.transports) |->
                          IF t \in TT THEN [g.transports[t] EXCEPT !.state = "closed"]
                          ELSE g.transports[t]],
        !.producers  = [p \in Indices(g.producers) |->
                          IF p \in PP THEN [g.producers[p] EXCEPT !.state = "closed"]
                          ELSE g.producers[p]],
        !.consumers  = [c \in Indices(g.consumers) |->
                          IF c \in CC THEN [g.consumers[c] EXCEPT !.state = "closed"]
                          ELSE g.consumers[c]]]

\* Engine: close the open transports in T.  Each open producer / consumer on
\* them is closed and its 'transportclose' handler runs on the Peer object
\* the handler captured.
CloseTransports(g, T) ==
  LET TT == {t \in T : t # 0 /\ g.transports[t].state = "open"}
      PP == {p \in OpenIn(g.producers) : g.producers[p].transport \in TT}
      CC == {c \in OpenIn(g.consumers) : g.consumers[c].transport \in TT}
  IN [g EXCEPT
        !.transports = [t \in Indices(g.transports) |->
                          IF t \in TT THEN [g.transports[t] EXCEPT !.state = "closed"]
                          ELSE g.transports[t]],
        !.producers  = [p \in Indices(g.producers) |->
                          IF p \in PP THEN [g.producers[p] EXCEPT !.state = "closed"]
                          ELSE g.producers[p]],
        !.consumers  = [c \in Indices(g.consumers) |->
                          IF c \in CC THEN [g.consumers[c] EXCEPT !.state = "closed"]
                          ELSE g.consumers[c]],
        !.peers      = [i \in Indices(g.peers) |->
                          [g.peers[i] EXCEPT
                             !.producers = @ \ {p \in PP : g.producers[p].peer = i},
                             !.consumers = @ \ {c \in CC : g.consumers[c].peer = i}]]]

\* SFU.closePeer on the graph; the boolean it returns is ClosePeerFound.
ClosePeerFound(g, roomId, peerId) ==
  /\ g.rooms[roomId] # 0
  /\ g.roomPeers[g.rooms[roomId]][peerId] # 0

ClosePeerG(g, roomId, peerId) ==
  IF ~ClosePeerFound(g, roomId, peerId) THEN g
  ELSE LET room == g.rooms[roomId]
           peer == g.roomPeers[room][peerId]
           g1   == CloseTransports(g, {g.peers[peer].transports[t] : t \in TransportIds})
       IN [g1 EXCEPT !.roomPeers[room][peerId] = 0]

RECURSIVE ClosePeersG(_, _, _)
ClosePeersG(g, roomId, P) ==
  IF P = {} THEN g
  ELSE LET p == CHOOSE x \in P : TRUE
       IN ClosePeersG(ClosePeerG(g, roomId, p), roomId, P \ {p})

\* Engine: router.close() closes every transport of the router.
CloseRouter(g, r) ==
  LET g1 == CloseTransports(g, {t \in Indices(g.transports) : g.transports[t].router = r})
  IN [g1 EXCEPT !.routers[r].state = IF @ = "open" THEN "closed" ELSE @]

\* mutant: the Room is closed but stays in the registry
CloseRoomGKeep(g, roomId) ==
  IF g.rooms[roomId] = 0 THEN g
  ELSE LET room == g.rooms[roomId]
           g1 == ClosePeersG(g, roomId, {p \in PeerIds : g.roomPeers[room][p] # 0})
       IN CloseRouter(g1, room)

\* SFU.closeRoom on the graph.
CloseRoomG(g, roomId) ==
  IF g.rooms[roomId] = 0 THEN g
  ELSE LET room == g.rooms[roomId]
           g1 == ClosePeersG(g, roomId, {p \in PeerIds : g.roomPeers[room][p] # 0})
           g2 == CloseRouter(g1, room)
       IN [g2 EXCEPT !.rooms[roomId] = 0]

RECURSIVE CloseRoomsG(_, _)
CloseRoomsG(g, R) ==
  IF R = {} THEN g
  ELSE LET r == CHOOSE x \in R : TRUE
       IN CloseRoomsG(CloseRoomG(g, r), R \ {r})

RECURSIVE CloseRoutersG(_, _)
CloseRoutersG(g, R) ==
  IF R = {} THEN g
  ELSE LET r == CHOOSE x \in R : TRUE
       IN CloseRoutersG(CloseRouter(g, r), R \ {r})

SetGraph(g) ==
  /\ rooms' = g.rooms
  /\ routers' = g.routers
  /\ roomPeers' = g.roomPeers
  /\ peers' = g.peers
  /\ transports' = g.transports
  /\ producers' = g.producers
  /\ consumers' = g.consumers

\* ------------------------------------------------------------------ Init
Init ==
  /\ workers = <<>>
  /\ workerObjs = <<>>
  /\ initLeft = 0
  /\ nextWorkerIndex = 0
  /\ process = [timers |-> 0, exited |-> FALSE]
  /\ rooms = [r \in RoomIds |-> 0]
  /\ routers = <<>>
  /\ roomPeers = <<>>
  /\ peers = <<>>
  /\ transports = <<>>
  /\ producers = <<>>
  /\ consumers = <<>>
  /\ aiHookConfig = [enabled |-> FALSE, endpoint |-> 0]
  /\ config = [enabled |-> FALSE, endpoint |-> 0]
  /\ connectionStatus = "disconnected"
  /\ probes = <<>>
  /\ posts = <<>>
  /\ emitted = <<>>
  /\ ret = RetNone

\* ------------------------------------------------------------- SFU.init
InitCall ==
  /\ initLeft = 0
  /\ initLeft' = NumWorkers
  /\ ret' = Ret("init", IF NumWorkers = 0 THEN "resolved" ELSE "pending", 0, "", "")
  /\ UNCHANGED <<workers, workerObjs, nextWorkerIndex, process, graphVars, hookVars>>

\* one iteration: createWorker resolved, the worker is pushed
InitSpawn ==
  /\ initLeft > 0
  /\ workerObjs' = Append(workerObjs, [state |-> "open"])
  /\ workers' = Append(workers, Len(workerObjs) + 1)
  /\ initLeft' = initLeft - 1
  /\ ret' = Ret("init", IF initLeft = 1 THEN "resolved" ELSE "pending", 0, "", "")
  /\ UNCHANGED <<nextWorkerIndex, process, graphVars, hookVars>>

\* ------------------------------------------------------- worker 'died'
\* the handler put on every worker by init: a worker process that was not
\* closed has ended; the engine closes what ran on it, the handler logs and
\* arms setTimeout(() => process.exit(1), 2000).  The worker stays in
\* SFU.workers.
WorkerDied(w) ==
  /\ workerObjs[w].state = "open"
  /\ workerObjs' = [workerObjs EXCEPT ![w].state = "died"]
  /\ SetGraph(CloseRoutersG(Graph, {r \in OpenIn(routers) : routers[r].worker = w}))
  /\ process' = [process EXCEPT !.timers = @ + 1]
  /\ ret' = Ret("died", "event", w, "", "")
  /\ UNCHANGED <<workers, initLeft, nextWorkerIndex, hookVars>>

\* an armed timer fires: process.exit(1)
ProcessExit ==
  /\ process.timers > 0
  /\ ~process.exited
  /\ process' = [timers |-> process.timers - 1, exited |-> TRUE]
  /\ ret' = Ret("exit", "event", 1, "", "")
  /\ UNCHANGED <<workers, workerObjs, initLeft, nextWorkerIndex, graphVars, hookVars>>

\* ------------------------------------------------------- getNextWorker
\* workers[nextWorkerIndex]; 0 is undefined
NextWorker ==
  IF nextWorkerIndex # NaN /\ nextWorkerIndex < Len(workers)
  THEN workers[nextWorkerIndex + 1] ELSE 0

\* mutant: the index is not advanced
StuckIndex == nextWorkerIndex

AdvancedIndex ==
  IF nextWorkerIndex = NaN \/ Len(workers) = 0 THEN NaN
  ELSE (nextWorkerIndex + 1) % Len(workers)

\* ------------------------------------------------------- SFU.createRoom
\* mutant: the worker is picked before the registry is looked up
CreateRoomHitAdvance(roomId) ==
  /\ rooms[roomId] # 0
  /\ ret' = Ret("createRoom", "value", rooms[roomId], roomId, "")
  /\ nextWorkerIndex' = AdvancedIndex
  /\ UNCHANGED <<workers, workerObjs, initLeft, process, graphVars, hookVars>>

CreateRoomHit(roomId) ==
  /\ rooms[roomId] # 0
  /\ ret' = Ret("createRoom", "value", rooms[roomId], roomId, "")
  /\ UNCHANGED <<poolVars, graphVars, hookVars>>

\* rooms.has is false: getNextWorker, then await worker.createRouter
CreateRoomCall(roomId) ==
  /\ rooms[roomId] = 0
  /\ nextWorkerIndex' = AdvancedIndex
  /\ IF NextWorker = 0
     THEN \* undefined.createRouter: TypeError, the promise rejects
          /\ ret' = Ret("createRoom", "throw", 0, roomId, "")
          /\ UNCHANGED graphVars
     ELSE /\ routers' = Append(routers, [worker |-> NextWorker, state |-> "pending",
                                         roomId |-> roomId, pool |-> Len(workers)])
          /\ roomPeers' = Append(roomPeers, NoPeers)
          /\ ret' = Ret("createRoom", "pending", Len(routers) + 1, roomId, "")
          /\ UNCHANGED <<rooms, peers, transports, producers, consumers>>
  /\ UNCHANGED <<workers, workerObjs, initLeft, process, hookVars>>

CreateRoomResolve(r) ==
  /\ routers[r].state = "pending"
  /\ routers' = [routers EXCEPT ![r].state = "open"]
  /\ rooms' = [rooms EXCEPT ![routers[r].roomId] = r]
  /\ ret' = Ret("createRoom", "resolved", r, routers[r].roomId, "")
  /\ UNCHANGED <<poolVars, hookVars, roomPeers, peers, transports, producers, consumers>>

CreateRoomReject(r) ==
  /\ routers[r].state = "pending"
  /\ routers' = [routers EXCEPT ![r].state = "failed"]
  /\ ret' = Ret("createRoom", "rejected", r, routers[r].roomId, "")
  /\ UNCHANGED <<poolVars, hookVars, rooms, roomPeers, peers, transports, producers, consumers>>

\* -------------------------------------------------------- SFU.closeRoom
CloseRoom(roomId) ==
  /\ SetGraph(CloseRoomG(Graph, roomId))
  /\ ret' = Ret("closeRoom", "bool", IF rooms[roomId] # 0 THEN 1 ELSE 0, roomId, "")
  /\ UNCHANGED <<poolVars, hookVars>>

\* ------------------------------------------------------- SFU.createPeer
\* mutant: a Peer is constructed without looking for an existing one
CreatePeerAlwaysNew(roomId, peerId) ==
  LET room == rooms[roomId] IN
  /\ IF room = 0
     THEN /\ ret' = Ret("createPeer", "null", 0, roomId, peerId)
          /\ UNCHANGED graphVars
     ELSE /\ peers' = Append(peers, [id |-> peerId, transports |-> NoTransports,
                                     producers |-> {}, consumers |-> {}])
          /\ roomPeers' = [roomPeers EXCEPT ![room][peerId] = Len(peers) + 1]
          /\ ret' = Ret("createPeer", "value", Len(peers) + 1, roomId, peerId)
          /\ UNCHANGED <<rooms, routers, transports, producers, consumers>>
  /\ UNCHANGED <<poolVars, hookVars>>

CreatePeer(roomId, peerId) ==
  LET room == rooms[roomId] IN
  /\ IF room = 0
     THEN /\ ret' = Ret("createPeer", "null", 0, roomId, peerId)
          /\ UNCHANGED graphVars
     ELSE IF roomPeers[room][peerId] # 0
     THEN /\ ret' = Ret("createPeer", "value", roomPeers[room][peerId], roomId, peerId)
          /\ UNCHANGED graphVars
     ELSE /\ peers' = Append(peers, [id |-> peerId, transports |-> NoTransports,
                                     producers |-> {}, consumers |-> {}])
          /\ roomPeers' = [roomPeers EXCEPT ![room][peerId] = Len(peers) + 1]
          /\ ret' = Ret("createPeer", "value", Len(peers) + 1, roomId, peerId)
          /\ UNCHANGED <<rooms, routers, transports, producers, consumers>>
  /\ UNCHANGED <<poolVars, hookVars>>

\* -------------------------------------------------------- SFU.closePeer
ClosePeer(roomId, peerId) ==
  /\ SetGraph(ClosePeerG(Graph, roomId, peerId))
  /\ ret' = Ret("closePeer", "bool",
                IF ClosePeerFound(Graph, roomId, peerId) THEN 1 ELSE 0, roomId, peerId)
  /\ UNCHANGED <<poolVars, hookVars>>

\* ------------------------------------------------------------ SFU.close
\* mutant: the worker list is emptied without closing the workers
CloseLeavesWorkers ==
  LET g1 == CloseRoomsG(Graph, {r \in RoomIds : rooms[r] # 0})
  IN /\ SetGraph([g1 EXCEPT !.rooms = [r \in RoomIds |-> 0]])
     /\ workers' = <<>>
     /\ ret' = Ret("close", "void", 0, "", "")
     /\ UNCHANGED <<workerObjs, initLeft, nextWorkerIndex, process, hookVars>>

Close ==
  LET g1 == CloseRoomsG(Graph, {r \in RoomIds : rooms[r] # 0})
      \* worker.close() closes the routers still open on the worker
      g2 == CloseRoutersG(g1, {r \in OpenIn(g1.routers) : \E i \in Indices(workers) :
                                       workers[i] = g1.routers[r].worker})
  IN /\ SetGraph([g2 EXCEPT !.rooms = [r \in RoomIds |-> 0]])
     /\ workerObjs' = [w \in Indices(workerObjs) |->
                         IF \E i \in Indices(workers) : workers[i] = w
                         THEN [workerObjs[w] EXCEPT !.state = "closed"]
                         ELSE workerObjs[w]]
     /\ workers' = <<>>
     /\ ret' = Ret("close", "void", 0, "", "")
     /\ UNCHANGED <<initLeft, nextWorkerIndex, process, hookVars>>

\* ------------------------------------------- SFU.createWebRtcTransport
CreateTransportCall(roomId, peerId, tid) ==
  LET room == rooms[roomId]
      peer == PeerOf(roomId, peerId)
  IN /\ IF room = 0 \/ peer = 0
        THEN /\ ret' = RetA("createWebRtcTransport", "null", 0, roomId, peerId, <<tid>>)
             /\ UNCHANGED graphVars
        ELSE \* await room.router.createWebRtcTransport
             /\ transports' = Append(transports,
                    [router |-> room, state |-> "pending", peer |-> peer, tid |-> tid])
             /\ ret' = RetA("createWebRtcTransport", "pending", Len(transports) + 1,
                          roomId, peerId, <<tid>>)
             /\ UNCHANGED <<rooms, routers, roomPeers, peers, producers, consumers>>
     /\ UNCHANGED <<poolVars, hookVars>>

\* the await resolved: peer.transports.set(transportId, transport)
CreateTransportResolve(t) ==
  /\ transports[t].state = "pending"
  /\ transports' = [transports EXCEPT ![t].state = "open"]
  /\ peers' = [peers EXCEPT ![transports[t].peer].transports[transports[t].tid] = t]
  /\ ret' = RetA("createWebRtcTransport", "resolved", t,
               routers[transports[t].router].roomId, peers[transports[t].peer].id,
               <<transports[t].tid>>)
  /\ UNCHANGED <<poolVars, hookVars, rooms, routers, roomPeers, producers, consumers>>

CreateTransportReject(t) ==
  /\ transports[t].state = "pending"
  /\ transports' = [transports EXCEPT ![t].state = "failed"]
  /\ ret' = RetA("createWebRtcTransport", "rejected", t,
               routers[transports[t].router].roomId, peers[transports[t].peer].id,
               <<transports[t].tid>>)
  /\ UNCHANGED <<poolVars, hookVars, rooms, routers, roomPeers, peers, producers, consumers>>

\* ---------------------------------------------------- the event emitter
\* SFU constructor: connector 'stream-sent' is re-emitted as 'ai-stream-sent'
Event(type, producerId, roomId, peerId, success) ==
  [type |-> type, producerId |-> producerId, roomId |-> roomId, peerId |-> peerId,
   success |-> success]

StreamSent(post, success) ==
  << Event("stream-sent", post.producerId, post.roomId, post.peerId, success),
     Event("ai-stream-sent", post.producerId, post.roomId, post.peerId, success) >>

\* --------------------------------------- AIHookConnector.sendMediaStream
\* the part that runs in the caller's turn, up to the await on axios.post
SendMediaStream(producerId, roomId, peerId) ==
  IF ~config.enabled \/ config.endpoint = 0
  THEN posts
  ELSE Append(posts, [state |-> "pending", producerId |-> producerId,
                      roomId |-> roomId, peerId |-> peerId])

\* mutant: a failed POST marks the connection as failed
PostDoneMarksFailed(i, ok, raises) ==
  /\ posts[i].state = "pending"
  /\ posts' = [posts EXCEPT ![i].state = IF ok THEN "ok" ELSE "failed"]
  /\ emitted' = emitted \o
        (IF ok THEN StreamSent(posts[i], TRUE) ELSE <<>>) \o
        (IF ~ok \/ raises THEN StreamSent(posts[i], FALSE) ELSE <<>>)
  /\ connectionStatus' = IF ok THEN connectionStatus ELSE "failed"
  /\ ret' = Ret("sendMediaStream", "resolved", i, posts[i].roomId, posts[i].peerId)
  /\ UNCHANGED <<poolVars, graphVars, aiHookConfig, config, probes>>

\* the POST came back.  ok: the request succeeded.  raises: a subscriber of
\* the (re-)emitted event throws, which the try block catches like a
\* failed request.
PostDone(i, ok, raises) ==
  /\ posts[i].state = "pending"
  /\ posts' = [posts EXCEPT ![i].state = IF ok THEN "ok" ELSE "failed"]
  /\ emitted' = emitted \o
        (IF ok THEN StreamSent(posts[i], TRUE) ELSE <<>>) \o
        (IF ~ok \/ raises THEN StreamSent(posts[i], FALSE) ELSE <<>>)
  /\ ret' = Ret("sendMediaStream", "resolved", i, posts[i].roomId, posts[i].peerId)
  /\ UNCHANGED <<poolVars, graphVars, aiHookConfig, config, connectionStatus, probes>>

\* ---------------------------------------------------- SFU.createProducer
\* mutant: a missing transport is an error instead of null
CreateProducerCallThrows(roomId, peerId, tid) ==
  LET peer == PeerOf(roomId, peerId)
      transport == TransportOf(roomId, peerId, tid)
  IN /\ IF transport = 0
        THEN /\ ret' = RetA("createProducer", "throw", 0, roomId, peerId, <<tid>>)
             /\ UNCHANGED graphVars
        ELSE /\ producers' = Append(producers,
                    [transport |-> transport, state |-> "pending", peer |-> peer,
                     roomId |-> roomId, peerId |-> peerId])
             /\ ret' = RetA("createProducer", "pending", Len(producers) + 1,
                          roomId, peerId, <<tid>>)
             /\ UNCHANGED <<rooms, routers, roomPeers, peers, transports, consumers>>
     /\ UNCHANGED <<poolVars, hookVars>>

CreateProducerCall(roomId, peerId, tid) ==
  LET peer == PeerOf(roomId, peerId)
      transport == TransportOf(roomId, peerId, tid)
  IN /\ IF transport = 0
        THEN /\ ret' = RetA("createProducer", "null", 0, roomId, peerId, <<tid>>)
             /\ UNCHANGED graphVars
        ELSE \* await transport.produce
             /\ producers' = Append(producers,
                    [transport |-> transport, state |-> "pending", peer |-> peer,
                     roomId |-> roomId, peerId |-> peerId])
             /\ ret' = RetA("createProducer", "pending", Len(producers) + 1,
                          roomId, peerId, <<tid>>)
             /\ UNCHANGED <<rooms, routers, roomPeers, peers, transports, consumers>>
     /\ UNCHANGED <<poolVars, hookVars>>

\* mutant: the hook runs whatever aiHookConfig.enabled says
CreateProducerResolveUngated(p, raises) ==
  LET pr == producers[p] IN
  /\ pr.state = "pending"
  /\ producers' = [producers EXCEPT ![p].state = "open"]
  /\ peers' = [peers EXCEPT ![pr.peer].producers = @ \cup {p}]
  /\ emitted' = Append(emitted, Event("ai-hook-producer", p, pr.roomId, pr.peerId, TRUE))
  /\ IF raises
     THEN /\ ret' = Ret("createProducer", "rejected", p, pr.roomId, pr.peerId)
          /\ UNCHANGED posts
     ELSE /\ posts' = SendMediaStream(p, pr.roomId, pr.peerId)
          /\ ret' = Ret("createProducer", "resolved", p, pr.roomId, pr.peerId)
  /\ UNCHANGED <<poolVars, rooms, routers, roomPeers, transports, consumers,
                 aiHookConfig, config, connectionStatus, probes>>

\* the await resolved.  raises: a subscriber of 'ai-hook-producer' throws.
CreateProducerResolve(p, raises) ==
  LET pr == producers[p] IN
  /\ pr.state = "pending"
  /\ producers' = [producers EXCEPT ![p].state = "open"]
  /\ peers' = [peers EXCEPT ![pr.peer].producers = @ \cup {p}]
  /\ IF ~aiHookConfig.enabled
     THEN /\ ret' = Ret("createProducer", "resolved", p, pr.roomId, pr.peerId)
          /\ UNCHANGED <<posts, emitted>>
     ELSE /\ emitted' = Append(emitted,
                 Event("ai-hook-producer", p, pr.roomId, pr.peerId, TRUE))
          /\ IF raises
             THEN /\ ret' = Ret("createProducer", "rejected", p, pr.roomId, pr.peerId)
                  /\ UNCHANGED posts
             ELSE /\ posts' = SendMediaStream(p, pr.roomId, pr.peerId)
                  /\ ret' = Ret("createProducer", "resolved", p, pr.roomId, pr.peerId)
  /\ UNCHANGED <<poolVars, rooms, routers, roomPeers, transports, consumers,
                 aiHookConfig, config, connectionStatus, probes>>

\* mutant: a failed produce still notifies the hook
CreateProducerRejectNotifies(p) ==
  LET pr == producers[p] IN
  /\ pr.state = "pending"
  /\ producers' = [producers EXCEPT ![p].state = "failed"]
  /\ IF aiHookConfig.enabled
     THEN /\ emitted' = Append(emitted,
                 Event("ai-hook-producer", p, pr.roomId, pr.peerId, TRUE))
          /\ posts' = SendMediaStream(p, pr.roomId, pr.peerId)
     ELSE UNCHANGED <<posts, emitted>>
  /\ ret' = Ret("createProducer", "rejected", p, pr.roomId, pr.peerId)
  /\ UNCHANGED <<poolVars, rooms, routers, roomPeers, peers, transports, consumers,
                 aiHookConfig, config, connectionStatus, probes>>

CreateProducerReject(p) ==
  /\ producers[p].state = "pending"
  /\ producers' = [producers EXCEPT ![p].state = "failed"]
  /\ ret' = Ret("createProducer", "rejected", p, producers[p].roomId, producers[p].peerId)
  /\ UNCHANGED <<poolVars, hookVars, rooms, routers, roomPeers, peers, transports, consumers>>

\* ---------------------------------------------------- SFU.createConsumer
\* mutant: router.canConsume is not asked
CreateConsumerCheckNoCan(roomId, consumerPeerId, producerPeerId, producerId, tid, canConsume) ==
  LET room == rooms[roomId]
      consumerPeer == PeerOf(roomId, consumerPeerId)
      transport == TransportOf(roomId, consumerPeerId, tid)
      producerPeer == PeerOf(roomId, producerPeerId)
  IN IF room = 0 THEN "room"
     ELSE IF consumerPeer = 0 THEN "consumerPeer"
     ELSE IF transport = 0 THEN "transport"
     ELSE IF producerPeer = 0 THEN "producerPeer"
     ELSE IF producerId \notin peers[producerPeer].producers THEN "producer"
     ELSE "ok"

\* mutant: the producer is looked up under any Peer, whatever its room
CreateConsumerCheckAnyRoom(roomId, consumerPeerId, producerPeerId, producerId, tid, canConsume) ==
  LET room == rooms[roomId]
      consumerPeer == PeerOf(roomId, consumerPeerId)
      transport == TransportOf(roomId, consumerPeerId, tid)
  IN IF room = 0 THEN "room"
     ELSE IF consumerPeer = 0 THEN "consumerPeer"
     ELSE IF transport = 0 THEN "transport"
     ELSE IF \A P \in Indices(peers) : producerId \notin peers[P].producers THEN "producer"
     ELSE IF ~canConsume THEN "canConsume"
     ELSE "ok"

\* The checks of createConsumer in the order of the code; the first that
\* fails, or "ok".  canConsume is the routing context's answer.
CreateConsumerCheck(roomId, consumerPeerId, producerPeerId, producerId, tid, canConsume) ==
  LET room == rooms[roomId]
      consumerPeer == PeerOf(roomId, consumerPeerId)
      transport == TransportOf(roomId, consumerPeerId, tid)
      producerPeer == PeerOf(roomId, producerPeerId)
  IN IF room = 0 THEN "room"
     ELSE IF consumerPeer = 0 THEN "consumerPeer"
     ELSE IF transport = 0 THEN "transport"
     ELSE IF producerPeer = 0 THEN "producerPeer"
     ELSE IF producerId \notin peers[producerPeer].producers THEN "producer"
     ELSE IF ~canConsume THEN "canConsume"
     ELSE "ok"

\* mutant: the consumer is not created paused
CreateConsumerCallUnpaused(roomId, consumerPeerId, producerPeerId, producerId, tid, canConsume) ==
  LET consumerPeer == PeerOf(roomId, consumerPeerId)
  IN /\ IF CreateConsumerCheck(roomId, consumerPeerId, producerPeerId, producerId,
                               tid, canConsume) # "ok"
        THEN /\ ret' = RetA("createConsumer", "null", 0, roomId, consumerPeerId,
                          <<producerPeerId, producerId, tid, canConsume>>)
             /\ UNCHANGED graphVars
        ELSE /\ consumers' = Append(consumers,
                    [transport |-> peers[consumerPeer].transports[tid],
                     producer |-> producerId, state |-> "pending", paused |-> FALSE,
                     peer |-> consumerPeer, roomId |-> roomId,
                     peerId |-> consumerPeerId, producerPeerId |-> producerPeerId])
             /\ ret' = RetA("createConsumer", "pending", Len(consumers) + 1, roomId,
                          consumerPeerId, <<producerPeerId, producerId, tid, canConsume>>)
             /\ UNCHANGED <<rooms, routers, roomPeers, peers, transports, producers>>
     /\ UNCHANGED <<poolVars, hookVars>>

CreateConsumerCall(roomId, consumerPeerId, producerPeerId, producerId, tid, canConsume) ==
  LET consumerPeer == PeerOf(roomId, consumerPeerId)
  IN /\ IF CreateConsumerCheck(roomId, consumerPeerId, producerPeerId, producerId,
                               tid, canConsume) # "ok"
        THEN /\ ret' = RetA("createConsumer", "null", 0, roomId, consumerPeerId,
                          <<producerPeerId, producerId, tid, canConsume>>)
             /\ UNCHANGED graphVars
        ELSE \* await transport.consume
             /\ consumers' = Append(consumers,
                    [transport |-> peers[consumerPeer].transports[tid],
                     producer |-> producerId, state |-> "pending", paused |-> TRUE,
                     peer |-> consumerPeer, roomId |-> roomId,
                     peerId |-> consumerPeerId, producerPeerId |-> producerPeerId])
             /\ ret' = RetA("createConsumer", "pending", Len(consumers) + 1, roomId,
                          consumerPeerId, <<producerPeerId, producerId, tid, canConsume>>)
             /\ UNCHANGED <<rooms, routers, roomPeers, peers, transports, producers>>
     /\ UNCHANGED <<poolVars, hookVars>>

CreateConsumerResolve(c) ==
  /\ consumers[c].state = "pending"
  /\ consumers' = [consumers EXCEPT ![c].state = "open"]
  /\ peers' = [peers EXCEPT ![consumers[c].peer].consumers = @ \cup {c}]
  /\ ret' = Ret("createConsumer", "resolved", c, consumers[c].roomId, consumers[c].peerId)
  /\ UNCHANGED <<poolVars, hookVars, rooms, routers, roomPeers, transports, producers>>

CreateConsumerReject(c) ==
  /\ consumers[c].state = "pending"
  /\ consumers' = [consumers EXCEPT ![c].state = "failed"]
  /\ ret' = Ret("createConsumer", "rejected", c, consumers[c].roomId, consumers[c].peerId)
  /\ UNCHANGED <<poolVars, hookVars, rooms, routers, roomPeers, peers, transports, producers>>

\* mutant: the handler removes the consumer without emitting
ProducerCloseSilent(c) ==
  /\ consumers[c].state = "open"
  /\ producers[consumers[c].producer].state = "closed"
  /\ consumers' = [consumers EXCEPT ![c].state = "closed"]
  /\ peers' = [peers EXCEPT ![consumers[c].peer].consumers = @ \ {c}]
  /\ ret' = Ret("producerclose", "event", c, consumers[c].roomId, consumers[c].peerId)
  /\ UNCHANGED <<poolVars, rooms, routers, roomPeers, transports, producers, hookVars>>

\* consumer 'producerclose': the engine reports that the source producer of
\* an open consumer has closed
ProducerClose(c) ==
  /\ consumers[c].state = "open"
  /\ producers[consumers[c].producer].state = "closed"
  /\ consumers' = [consumers EXCEPT ![c].state = "closed"]
  /\ peers' = [peers EXCEPT ![consumers[c].peer].consumers = @ \ {c}]
  /\ emitted' = Append(emitted, Event("consumer-producer-closed", c,
                                      consumers[c].roomId, consumers[c].peerId, TRUE))
  /\ ret' = Ret("producerclose", "event", c, consumers[c].roomId, consumers[c].peerId)
  /\ UNCHANGED <<poolVars, rooms, routers, roomPeers, transports, producers,
                 aiHookConfig, config, connectionStatus, probes, posts>>

\* --------------------------------------------------- SFU.setAIHookConfig
\* AIHookConnector.setConfig starts testConnection only when enabled with
\* an endpoint; testConnection runs up to its await on axios.get
SetAIHookConfig(cfg) ==
  /\ aiHookConfig' = cfg
  /\ config' = cfg
  /\ probes' = IF cfg.enabled /\ cfg.endpoint # 0
               THEN Append(probes, [state |-> "pending"]) ELSE probes
  /\ ret' = Ret("setAIHookConfig", "void", 0, "", "")
  /\ UNCHANGED <<poolVars, graphVars, connectionStatus, posts, emitted>>

\* mutant: any answer of the endpoint counts as connected
TestConnectionDoneAnyAnswer(i, status) ==
  /\ probes[i].state = "pending"
  /\ probes' = [probes EXCEPT ![i].state = "done"]
  /\ connectionStatus' = IF status # 0 THEN "connected" ELSE "failed"
  /\ ret' = RetA("testConnection", "resolved", i, "", "", <<status>>)
  /\ UNCHANGED <<poolVars, graphVars, aiHookConfig, config, posts, emitted>>

\* testConnection after its await: status 200, another status, or an error
\* or timeout (0)
TestConnectionDone(i, status) ==
  /\ probes[i].state = "pending"
  /\ probes' = [probes EXCEPT ![i].state = "done"]
  /\ connectionStatus' = IF status = 200 THEN "connected" ELSE "failed"
  /\ ret' = RetA("testConnection", "resolved", i, "", "", <<status>>)
  /\ UNCHANGED <<poolVars, graphVars, aiHookConfig, config, posts, emitted>>

\* ------------------------------------------------------ SFU.handleAIEvent
\* an 'ai-event' emission: by the connector, and by the SFU listener that the
\* constructor put on the connector
AIEvent(emitter, event) == [type |-> "ai-event", emitter |-> emitter, event |-> event]

\* mutant: events are relayed only while the hook is enabled
HandleAIEventGated(event) ==
  /\ emitted' = IF aiHookConfig.enabled
                THEN emitted \o <<AIEvent("connector", event), AIEvent("sfu", event)>>
                ELSE emitted
  /\ ret' = RetA("handleAIEvent", "void", 0, "", "", <<event>>)
  /\ UNCHANGED <<poolVars, graphVars, aiHookConfig, config, connectionStatus, probes, posts>>

HandleAIEvent(event) ==
  /\ emitted' = emitted \o <<AIEvent("connector", event), AIEvent("sfu", event)>>
  /\ ret' = RetA("handleAIEvent", "void", 0, "", "", <<event>>)
  /\ UNCHANGED <<poolVars, graphVars, aiHookConfig, config, connectionStatus, probes, posts>>

AIEvents == {"e1", "e2"}
AIEventsIn(log, emitter) ==
  {k \in Indices(log) : log[k].type = "ai-event" /\ log[k].emitter = emitter}

HookConfigs == { [enabled |-> e, endpoint |-> u] : e \in BOOLEAN, u \in 0..1 }

vars == <<workers, workerObjs, initLeft, nextWorkerIndex, process, rooms, routers, roomPeers,
          peers, transports, producers, consumers, aiHookConfig, config,
          connectionStatus, probes, posts, emitted, ret>>

\* --------------------------------------------------------- specifications
\* Rooms and the worker pool.
MaxWorkers == 2      \* worker handles ever spawned
MaxRouters == 3      \* createRouter requests ever issued

Next ==
  \/ Len(workerObjs) + NumWorkers <= MaxWorkers /\ InitCall
  \/ InitSpawn
  \/ \E roomId \in RoomIds : CreateRoomHit(roomId)
  \/ \E roomId \in RoomIds :
        (IF NextWorker = 0 THEN TRUE ELSE Len(routers) < MaxRouters)
        /\ CreateRoomCall(roomId)
  \/ \E r \in Indices(routers) : CreateRoomResolve(r)
  \/ \E r \in Indices(routers) : CreateRoomReject(r)
  \/ \E roomId \in RoomIds : CloseRoom(roomId)
  \/ Close

Spec == Init /\ [][Next]_vars

\* The session graph below one room id, from the state in which the tests
\* start: new SFU() followed by await sfu.init().
MaxRoutersG   == 2   \* createRouter requests ever issued
MaxPeers      == 2   \* Peer objects ever constructed
MaxTransports == 1   \* createWebRtcTransport requests ever issued
MaxProducers  == 1   \* produce requests ever issued
MaxConsumers  == 1   \* consume requests ever issued
GraphRoomIds  == {"r1"}

InitDone ==
  /\ workers = [i \in 1..NumWorkers |-> i]
  /\ workerObjs = [i \in 1..NumWorkers |-> [state |-> "open"]]
  /\ initLeft = 0
  /\ nextWorkerIndex = 0
  /\ process = [timers |-> 0, exited |-> FALSE]
  /\ rooms = [r \in RoomIds |-> 0]
  /\ routers = <<>>
  /\ roomPeers = <<>>
  /\ peers = <<>>
  /\ transports = <<>>
  /\ producers = <<>>
  /\ consumers = <<>>
  /\ aiHookConfig = [enabled |-> FALSE, endpoint |-> 0]
  /\ config = [enabled |-> FALSE, endpoint |-> 0]
  /\ connectionStatus = "disconnected"
  /\ probes = <<>>
  /\ posts = <<>>
  /\ emitted = <<>>
  /\ ret = Ret("init", "resolved", 0, "", "")

NextGraph ==
  \/ \E roomId \in GraphRoomIds : CreateRoomHit(roomId)
  \/ \E roomId \in GraphRoomIds :
        (IF NextWorker = 0 THEN TRUE ELSE Len(routers) < MaxRoutersG)
        /\ CreateRoomCall(roomId)
  \/ \E r \in Indices(routers) : CreateRoomResolve(r)
  \/ \E r \in Indices(routers) : CreateRoomReject(r)
  \/ \E roomId \in GraphRoomIds : CloseRoom(roomId)
  \/ \E roomId \in GraphRoomIds, peerId \in PeerIds :
        (IF rooms[roomId] # 0 /\ PeerOf(roomId, peerId) = 0
         THEN Len(peers) < MaxPeers ELSE TRUE)
        /\ CreatePeer(roomId, peerId)
  \/ \E roomId \in GraphRoomIds, peerId \in PeerIds : ClosePeer(roomId, peerId)
  \/ \E roomId \in GraphRoomIds, peerId \in PeerIds, tid \in TransportIds :
        (IF PeerOf(roomId, peerId) # 0 THEN Len(transports) < MaxTransports ELSE TRUE)
        /\ CreateTransportCall(roomId, peerId, tid)
  \/ \E t \in Indices(transports) : CreateTransportResolve(t)
  \/ \E t \in Indices(transports) : CreateTransportReject(t)
  \/ \E roomId \in GraphRoomIds, peerId \in PeerIds, tid \in TransportIds :
        (IF TransportOf(roomId, peerId, tid) # 0
         THEN Len(producers) < MaxProducers ELSE TRUE)
        /\ CreateProducerCall(roomId, peerId, tid)
  \/ \E p \in Indices(producers) : CreateProducerResolve(p, FALSE)
  \/ \E p \in Indices(producers) : CreateProducerReject(p)
  \/ \E roomId \in GraphRoomIds, cp \in PeerIds, pp \in PeerIds,
         producerId \in 1..MaxProducers, tid \in TransportIds, canConsume \in BOOLEAN :
        (IF CreateConsumerCheck(roomId, cp, pp, producerId, tid, canConsume) = "ok"
         THEN Len(consumers) < MaxConsumers ELSE TRUE)
        /\ CreateConsumerCall(roomId, cp, pp, producerId, tid, canConsume)
  \/ \E c \in Indices(consumers) : CreateConsumerResolve(c)
  \/ \E c \in Indices(consumers) : CreateConsumerReject(c)
  \/ \E c \in Indices(consumers) : ProducerClose(c)
  \/ Close

SpecGraph == InitDone /\ [][NextGraph]_vars

\* The AI hook: one room, one peer, one transport, and the producers made on
\* it while the hook is configured, probed and posted to.
MaxRoutersH   == 1   \* createRouter requests ever issued
MaxProducersH == 2   \* produce requests ever issued
MaxProbes     == 2   \* GET /health requests ever issued
MaxAIEvents   == 1   \* handleAIEvent calls ever made
HookRoomIds   == {"r1"}
HookPeerIds   == {"p1"}

NextHook ==
  \/ \E roomId \in HookRoomIds :
        (IF NextWorker = 0 THEN TRUE ELSE Len(routers) < MaxRoutersH)
        /\ CreateRoomCall(roomId)
  \/ \E r \in Indices(routers) : CreateRoomResolve(r)
  \/ \E roomId \in HookRoomIds, peerId \in HookPeerIds :
        PeerOf(roomId, peerId) = 0 /\ CreatePeer(roomId, peerId)
  \/ \E roomId \in HookRoomIds, peerId \in HookPeerIds, tid \in TransportIds :
        TransportOf(roomId, peerId, tid) = 0 /\ Len(transports) = 0
        /\ CreateTransportCall(roomId, peerId, tid)
  \/ \E t \in Indices(transports) : CreateTransportResolve(t)
  \/ \E roomId \in HookRoomIds, peerId \in HookPeerIds, tid \in TransportIds :
        (IF TransportOf(roomId, peerId, tid) # 0
         THEN Len(producers) < MaxProducersH ELSE TRUE)
        /\ CreateProducerCall(roomId, peerId, tid)
  \/ \E p \in Indices(producers), raises \in BOOLEAN : CreateProducerResolve(p, raises)
  \/ \E p \in Indices(producers) : CreateProducerReject(p)
  \/ \E cfg \in HookConfigs :
        (IF cfg.enabled /\ cfg.endpoint # 0 THEN Len(probes) < MaxProbes ELSE TRUE)
        /\ SetAIHookConfig(cfg)
  \/ \E i \in Indices(probes), status \in {200, 500, 0} : TestConnectionDone(i, status)
  \/ \E i \in Indices(posts), ok \in BOOLEAN, raises \in BOOLEAN : PostDone(i, ok, raises)
  \/ \E event \in AIEvents :
        Cardinality(AIEventsIn(emitted, "sfu")) < MaxAIEvents /\ HandleAIEvent(event)

SpecHook == InitDone /\ [][NextHook]_vars

\* Two rooms, each with one peer id, and the producers and consumers made in
\* them, from the state after init.
MaxRoutersC    == 2   \* createRouter requests ever issued
MaxPeersC      == 2   \* Peer objects ever constructed
MaxTransportsC == 2   \* createWebRtcTransport requests ever issued
MaxProducersC  == 1   \* produce requests ever issued
MaxConsumersC  == 1   \* consume requests ever issued
CrossPeerIds   == {"p1"}

NextCross ==
  \/ \E roomId \in RoomIds :
        (IF NextWorker = 0 THEN TRUE ELSE Len(routers) < MaxRoutersC)
        /\ CreateRoomCall(roomId)
  \/ \E r \in Indices(routers) : CreateRoomResolve(r)
  \/ \E roomId \in RoomIds, peerId \in CrossPeerIds :
        (IF rooms[roomId] # 0 /\ PeerOf(roomId, peerId) = 0
         THEN Len(peers) < MaxPeersC ELSE TRUE)
        /\ CreatePeer(roomId, peerId)
  \/ \E roomId \in RoomIds, peerId \in CrossPeerIds : ClosePeer(roomId, peerId)
  \/ \E roomId \in RoomIds, peerId \in CrossPeerIds, tid \in TransportIds :
        (IF PeerOf(roomId, peerId) # 0 THEN Len(transports) < MaxTransportsC ELSE TRUE)
        /\ CreateTransportCall(roomId, peerId, tid)
  \/ \E t \in Indices(transports) : CreateTransportResolve(t)
  \/ \E roomId \in RoomIds, peerId \in CrossPeerIds, tid \in TransportIds :
        (IF TransportOf(roomId, peerId, tid) # 0
         THEN Len(producers) < MaxProducersC ELSE TRUE)
        /\ CreateProducerCall(roomId, peerId, tid)
  \/ \E p \in Indices(producers) : CreateProducerResolve(p, FALSE)
  \/ \E roomId \in RoomIds, cp \in CrossPeerIds, pp \in CrossPeerIds,
         producerId \in 1..MaxProducersC, tid \in TransportIds, canConsume \in BOOLEAN :
        (IF CreateConsumerCheck(roomId, cp, pp, producerId, tid, canConsume) = "ok"
         THEN Len(consumers) < MaxConsumersC ELSE TRUE)
        /\ CreateConsumerCall(roomId, cp, pp, producerId, tid, canConsume)
  \/ \E c \in Indices(consumers) : CreateConsumerResolve(c)
  \/ \E c \in Indices(consumers) : ProducerClose(c)

SpecCross == InitDone /\ [][NextCross]_vars

\* One room with two peers, each with its own transport, closed peer by peer,
\* from the state after init.
MaxRoutersP    == 1   \* createRouter requests ever issued
MaxPeersP      == 2   \* Peer objects ever constructed
MaxTransportsP == 2   \* createWebRtcTransport requests ever issued
MaxProducersP  == 1   \* produce requests ever issued
MaxConsumersP  == 2   \* consume requests ever issued

NextPeers ==
  \/ \E roomId \in GraphRoomIds :
        (IF NextWorker = 0 THEN TRUE ELSE Len(routers) < MaxRoutersP)
        /\ CreateRoomCall(roomId)
  \/ \E r \in Indices(routers) : CreateRoomResolve(r)
  \/ \E roomId \in GraphRoomIds, peerId \in PeerIds :
        (IF rooms[roomId] # 0 /\ PeerOf(roomId, peerId) = 0
         THEN Len(peers) < MaxPeersP ELSE TRUE)
        /\ CreatePeer(roomId, peerId)
  \/ \E roomId \in GraphRoomIds, peerId \in PeerIds : ClosePeer(roomId, peerId)
  \/ \E roomId \in GraphRoomIds, peerId \in PeerIds, tid \in TransportIds :
        (IF PeerOf(roomId, peerId) # 0 THEN Len(transports) < MaxTransportsP ELSE TRUE)
        /\ CreateTransportCall(roomId, peerId, tid)
  \/ \E t \in Indices(transports) : CreateTransportResolve(t)
  \/ \E roomId \in GraphRoomIds, peerId \in PeerIds, tid \in TransportIds :
        (IF TransportOf(roomId, peerId, tid) # 0
         THEN Len(producers) < MaxProducersP ELSE TRUE)
        /\ CreateProducerCall(roomId, peerId, tid)
  \/ \E p \in Indices(producers) : CreateProducerResolve(p, FALSE)
  \/ \E roomId \in GraphRoomIds, cp \in PeerIds, pp \in PeerIds,
         producerId \in 1..MaxProducersP, tid \in TransportIds, canConsume \in BOOLEAN :
        (IF CreateConsumerCheck(roomId, cp, pp, producerId, tid, canConsume) = "ok"
         THEN Len(consumers) < MaxConsumersP ELSE TRUE)
        /\ CreateConsumerCall(roomId, cp, pp, producerId, tid, canConsume)
  \/ \E c \in Indices(consumers) : CreateConsumerResolve(c)
  \/ \E c \in Indices(consumers) : ProducerClose(c)

SpecPeers == InitDone /\ [][NextPeers]_vars

\* the engine delivers every 'producerclose' it owes
SpecPeersFair ==
  SpecPeers /\ WF_vars(\E c \in Indices(consumers) : ProducerClose(c))

\* Engine failures: one room id and one peer id, every engine call of the
\* graph may be rejected, with the AI hook configured, from the state after
\* init.
MaxRoutersF    == 2   \* createRouter requests ever issued
MaxPeersF      == 1   \* Peer objects ever constructed
MaxTransportsF == 2   \* createWebRtcTransport requests ever issued
MaxProducersF  == 1   \* produce requests ever issued
MaxConsumersF  == 1   \* consume requests ever issued
MaxProbesF     == 1   \* GET /health requests ever issued

NextFail ==
  \/ \E roomId \in HookRoomIds :
        (IF NextWorker = 0 THEN TRUE ELSE Len(routers) < MaxRoutersF)
        /\ CreateRoomCall(roomId)
  \/ \E r \in Indices(routers) : CreateRoomResolve(r)
  \/ \E r \in Indices(routers) : CreateRoomReject(r)
  \/ \E roomId \in HookRoomIds, peerId \in HookPeerIds :
        (IF rooms[roomId] # 0 /\ PeerOf(roomId, peerId) = 0
         THEN Len(peers) < MaxPeersF ELSE TRUE)
        /\ CreatePeer(roomId, peerId)
  \/ \E roomId \in HookRoomIds, peerId \in HookPeerIds, tid \in TransportIds :
        (IF PeerOf(roomId, peerId) # 0 THEN Len(transports) < MaxTransportsF ELSE TRUE)
        /\ CreateTransportCall(roomId, peerId, tid)
  \/ \E t \in Indices(transports) : CreateTransportResolve(t)
  \/ \E t \in Indices(transports) : CreateTransportReject(t)
  \/ \E roomId \in HookRoomIds, peerId \in HookPeerIds, tid \in TransportIds :
        (IF TransportOf(roomId, peerId, tid) # 0
         THEN Len(producers) < MaxProducersF ELSE TRUE)
        /\ CreateProducerCall(roomId, peerId, tid)
  \/ \E p \in Indices(producers) : CreateProducerResolve(p, FALSE)
  \/ \E p \in Indices(producers) : CreateProducerReject(p)
  \/ \E roomId \in HookRoomIds, cp \in HookPeerIds, pp \in HookPeerIds,
         producerId \in 1..MaxProducersF, tid \in TransportIds, canConsume \in BOOLEAN :
        (IF CreateConsumerCheck(roomId, cp, pp, producerId, tid, canConsume) = "ok"
         THEN Len(consumers) < MaxConsumersF ELSE TRUE)
        /\ CreateConsumerCall(roomId, cp, pp, producerId, tid, canConsume)
  \/ \E c \in Indices(consumers) : CreateConsumerResolve(c)
  \/ \E c \in Indices(consumers) : CreateConsumerReject(c)
  \/ \E cfg \in HookConfigs :
        (IF cfg.enabled /\ cfg.endpoint # 0 THEN Len(probes) < MaxProbesF ELSE TRUE)
        /\ SetAIHookConfig(cfg)
  \/ \E i \in Indices(probes), status \in {200, 0} : TestConnectionDone(i, status)
  \/ \E i \in Indices(posts), ok \in BOOLEAN : PostDone(i, ok, FALSE)

SpecFail == InitDone /\ [][NextFail]_vars

\* Rooms on a pool whose workers may die, from the state after init, until
\* the process exits.
MaxRoutersD == 2     \* createRouter requests ever issued

NextDeath ==
  \/ \E roomId \in RoomIds : ~process.exited /\ CreateRoomHit(roomId)
  \/ \E roomId \in RoomIds :
        (IF NextWorker = 0 THEN TRUE ELSE Len(routers) < MaxRoutersD)
        /\ ~process.exited /\ CreateRoomCall(roomId)
  \/ \E r \in Indices(routers) : ~process.exited /\ CreateRoomResolve(r)
  \/ \E r \in Indices(routers) : ~process.exited /\ CreateRoomReject(r)
  \/ \E roomId \in RoomIds : ~process.exited /\ CloseRoom(roomId)
  \/ ~process.exited /\ Close
  \/ \E w \in Indices(workerObjs) : ~process.exited /\ WorkerDied(w)
  \/ ProcessExit

SpecDeath == InitDone /\ [][NextDeath]_vars

\* ------------------------------------------------------------------ claims
\* Every action writes ret, so in a step that changes the state ret' names
\* the action taken.  A step in which operation op is called (not the later
\* step that settles a promise it left pending):
Called(op) ==
  /\ ret'.op = op
  /\ ret'.kind \notin {"resolved", "rejected"}

\* a step that settles a pending promise of operation op
Settled(op) ==
  /\ ret'.op = op
  /\ ret'.kind \in {"resolved", "rejected"}

\* C1: createRoom is idempotent for sequential calls.  Whatever Room a
\* createRoom(roomId) hands back is the one the registry holds for roomId; the
\* registry entry changes only when closeRoom / close remove it or when a
\* suspended createRoom(roomId) resolves; and a createRoom(roomId) call made
\* while the registry holds a Room for roomId returns that very Room in the
\* caller's turn, leaves nextWorkerIndex alone and issues no createRouter.
C1_CreateRoomIdempotent ==
  [][\A roomId \in RoomIds :
       /\ (ret'.op = "createRoom" /\ ret'.room = roomId
             /\ ret'.kind \in {"value", "resolved"})
            => rooms'[roomId] = ret'.val /\ ret'.val # 0
       /\ rooms'[roomId] # rooms[roomId]
            => \/ Settled("createRoom") /\ ret'.room = roomId
               \/ Called("closeRoom") /\ ret'.room = roomId
               \/ Called("close")
       /\ (rooms[roomId] # 0 /\ Called("createRoom") /\ ret'.room = roomId)
            => /\ ret'.kind = "value"
               /\ ret'.val = rooms[roomId]
               /\ nextWorkerIndex' = nextWorkerIndex
               /\ routers' = routers
               /\ rooms' = rooms]_vars

\* a second createRoom("r1") has just returned the registered Room
C1_Witness ==
  /\ ret.op = "createRoom" /\ ret.kind = "value" /\ ret.room = "r1"
  /\ rooms["r1"] = ret.val
  /\ routers[ret.val].state = "open"
  /\ nextWorkerIndex = 1

\* C2: createPeer is idempotent.  A createPeer(roomId, peerId) call made while
\* the room registered for roomId holds a Peer for peerId returns that very
\* Peer and leaves every Peer's transports, producers and consumers maps, the
\* room's peers map and the registry as they were; the Peer a createPeer call
\* hands back is the one the registered room holds for peerId; and the Peer a
\* live Room object holds for peerId is replaced or removed only by
\* closePeer of that pair, closeRoom of that room, or close.
C2_CreatePeerIdempotent ==
  [][/\ \A roomId \in RoomIds, peerId \in PeerIds :
          /\ (Called("createPeer") /\ ret'.room = roomId /\ ret'.peer = peerId
                /\ PeerOf(roomId, peerId) # 0)
               => /\ ret'.kind = "value"
                  /\ ret'.val = PeerOf(roomId, peerId)
                  /\ peers' = peers
                  /\ roomPeers' = roomPeers
                  /\ rooms' = rooms
          /\ (ret'.op = "createPeer" /\ ret'.kind = "value"
                /\ ret'.room = roomId /\ ret'.peer = peerId)
               => /\ ret'.val # 0
                  /\ rooms'[roomId] # 0
                  /\ roomPeers'[rooms'[roomId]][peerId] = ret'.val
     /\ \A R \in Indices(roomPeers), peerId \in PeerIds :
          (roomPeers[R][peerId] # 0 /\ roomPeers'[R][peerId] # roomPeers[R][peerId])
            => \/ Called("closePeer") /\ ret'.peer = peerId /\ rooms[ret'.room] = R
               \/ Called("closeRoom") /\ rooms[ret'.room] = R
               \/ Called("close")]_vars

\* a repeated createPeer("r1", "p1") has just returned the Peer that already
\* carries a transport and a producer
C2_Witness ==
  /\ ret.op = "createPeer" /\ ret.kind = "value"
  /\ ret.room = "r1" /\ ret.peer = "p1"
  /\ ret.val = PeerOf("r1", "p1")
  /\ peers[ret.val].transports["t1"] # 0
  /\ peers[ret.val].producers # {}

\* C3: closeRoom cascades.  A closeRoom(id) that returns true removes the
\* room from the registry, empties its peers map, closes its routing context
\* and closes every transport registered under a peer of the room; a
\* closeRoom(id) that returns false found no room and changed nothing; while
\* the registry has no room for id, closePeer(id, *) returns false and
\* createPeer / createWebRtcTransport / createProducer / createConsumer on id
\* return null, all without touching the graph; and the registry gets a room
\* for id again only in a createRoom(id) step.
RoomTransports(R) ==
  {peers[roomPeers[R][p]].transports[t] :
      p \in {q \in PeerIds : roomPeers[R][q] # 0}, t \in TransportIds} \ {0}

C3_CloseRoomCascade ==
  [][\A roomId \in RoomIds :
       /\ (Called("closeRoom") /\ ret'.room = roomId /\ ret'.val = 1)
            => /\ rooms[roomId] # 0
               /\ rooms'[roomId] = 0
               /\ routers'[rooms[roomId]].state = "closed"
               /\ \A p \in PeerIds : roomPeers'[rooms[roomId]][p] = 0
               /\ \A t \in RoomTransports(rooms[roomId]) : transports'[t].state = "closed"
       /\ (Called("closeRoom") /\ ret'.room = roomId /\ ret'.val = 0)
            => rooms[roomId] = 0 /\ graphVars' = graphVars
       /\ (rooms[roomId] = 0 /\ ret'.room = roomId /\ Called("closePeer"))
            => ret'.val = 0 /\ graphVars' = graphVars
       /\ (rooms[roomId] = 0 /\ ret'.room = roomId
             /\ \E op \in {"createPeer", "createWebRtcTransport", "createProducer",
                           "createConsumer"} : Called(op))
            => ret'.kind = "null" /\ graphVars' = graphVars
       /\ (rooms[roomId] = 0 /\ rooms'[roomId] # 0)
            => ret'.op = "createRoom" /\ ret'.room = roomId]_vars

\* room r1 was closed with a peer that had a transport and a producer, and a
\* closePeer("r1", "p1") after that has just returned false
C3_Witness ==
  /\ ret.op = "closePeer" /\ ret.kind = "bool" /\ ret.val = 0
  /\ ret.room = "r1" /\ ret.peer = "p1"
  /\ rooms["r1"] = 0
  /\ Len(workers) = NumWorkers
  /\ \E R \in Indices(routers) :
        /\ routers[R].state = "closed"
        /\ \E t \in Indices(transports) :
              transports[t].router = R /\ transports[t].state = "closed"
        /\ \E x \in Indices(producers) :
              producers[x].roomId = "r1" /\ producers[x].state = "closed"

\* C4: ownership under interleaving.  In every reachable state each transport,
\* producer and consumer that is open in the engine is registered under
\* exactly one Peer that a registered Room holds.
TransportOwners(t) ==
  {rp \in RoomIds \X PeerIds :
      /\ PeerOf(rp[1], rp[2]) # 0
      /\ \E tid \in TransportIds : peers[PeerOf(rp[1], rp[2])].transports[tid] = t}
ProducerOwners(x) ==
  {rp \in RoomIds \X PeerIds :
      /\ PeerOf(rp[1], rp[2]) # 0
      /\ x \in peers[PeerOf(rp[1], rp[2])].producers}
ConsumerOwners(c) ==
  {rp \in RoomIds \X PeerIds :
      /\ PeerOf(rp[1], rp[2]) # 0
      /\ c \in peers[PeerOf(rp[1], rp[2])].consumers}

C4_Ownership ==
  /\ \A t \in OpenIn(transports) : Cardinality(TransportOwners(t)) = 1
  /\ \A x \in OpenIn(producers) : Cardinality(ProducerOwners(x)) = 1
  /\ \A c \in OpenIn(consumers) : Cardinality(ConsumerOwners(c)) = 1

\* C5: referential integrity of createConsumer.  A createConsumer call returns
\* null, registers nothing and issues no transport.consume whenever the room
\* is absent, the consumer peer is absent, transportId is not registered
\* under the consumer peer, the producer peer is absent, producerId is not
\* registered under the producer peer, or canConsume answers false; it issues
\* a (paused) transport.consume on the consumer peer's transport only when
\* all six pass; consume requests are issued by nothing else; and a consumer
\* enters a Peer's consumers map only when such a request resolves, under the
\* consumer peer of the call.
C5_CreateConsumerIntegrity ==
  [][/\ Called("createConsumer") =>
          LET roomId == ret'.room
              cp     == ret'.peer
              pp     == ret'.args[1]
              pid    == ret'.args[2]
              tid    == ret'.args[3]
              can    == ret'.args[4]
              absent == \/ rooms[roomId] = 0
                        \/ PeerOf(roomId, cp) = 0
                        \/ TransportOf(roomId, cp, tid) = 0
                        \/ PeerOf(roomId, pp) = 0
                        \/ pid \notin peers[PeerOf(roomId, pp)].producers
                        \/ ~can
          IN /\ absent => ret'.kind = "null" /\ graphVars' = graphVars
             /\ ~absent =>
                  /\ ret'.kind = "pending"
                  /\ ret'.val = Len(consumers) + 1
                  /\ Len(consumers') = Len(consumers) + 1
                  /\ consumers'[ret'.val].state = "pending"
                  /\ consumers'[ret'.val].paused
                  /\ consumers'[ret'.val].transport = TransportOf(roomId, cp, tid)
                  /\ consumers'[ret'.val].producer = pid
                  /\ consumers'[ret'.val].peer = PeerOf(roomId, cp)
     /\ Len(consumers') # Len(consumers)
          => Called("createConsumer") /\ ret'.kind = "pending"
     /\ (ret'.op = "createConsumer" /\ ret'.kind = "resolved")
          => /\ consumers[ret'.val].state = "pending"
             /\ consumers'[ret'.val].state = "open"
             /\ ret'.val \in peers'[consumers[ret'.val].peer].consumers
     /\ \A P \in Indices(peers) :
          ~(peers'[P].consumers \subseteq peers[P].consumers)
            => /\ ret'.op = "createConsumer" /\ ret'.kind = "resolved"
               /\ consumers[ret'.val].peer = P
               /\ peers'[P].consumers = peers[P].consumers \cup {ret'.val}]_vars

\* a createConsumer whose five lookups all succeed has just returned null
\* because canConsume answered false
C5_Witness ==
  /\ ret.op = "createConsumer" /\ ret.kind = "null"
  /\ ~ret.args[4]
  /\ CreateConsumerCheck(ret.room, ret.peer, ret.args[1], ret.args[2], ret.args[3],
                         FALSE) = "canConsume"
  /\ CreateConsumerCheck(ret.room, ret.peer, ret.args[1], ret.args[2], ret.args[3],
                         TRUE) = "ok"

\* C6: round-robin fairness.  Once init has spawned its N >= 1 workers, if
\* every createRouter request was issued on the full pool and has been
\* answered with a routing context, then each worker of the pool holds
\* floor(M/N) or ceil(M/N) of the M routing contexts created (so any two
\* workers differ by at most one), and each request went to the worker
\* after the one of the request before it, modulo N.
PoolPos(w) == CHOOSE i \in Indices(workers) : workers[i] = w
CreatedOn(w) == Cardinality({r \in Indices(routers) :
                    routers[r].worker = w /\ routers[r].state \in {"open", "closed"}})
FullPoolOnly ==
  /\ initLeft = 0
  /\ Len(workers) = NumWorkers
  /\ NumWorkers >= 1
  /\ \A r \in Indices(routers) :
        /\ routers[r].pool = NumWorkers
        /\ routers[r].state \in {"open", "closed"}

C6_RoundRobinFair ==
  FullPoolOnly =>
    LET M == Len(routers)
        N == NumWorkers
    IN /\ \A i \in Indices(workers) :
             CreatedOn(workers[i]) \in {M \div N, (M + N - 1) \div N}
       /\ \A i, j \in Indices(workers) :
             CreatedOn(workers[i]) - CreatedOn(workers[j]) <= 1
       /\ \A r \in Indices(routers) : r < M =>
             PoolPos(routers[r + 1].worker) = (PoolPos(routers[r].worker) % N) + 1

\* three rooms were created on the full pool: the third wrapped around
C6_Witness ==
  /\ FullPoolOnly
  /\ Len(routers) = 3
  /\ routers[3].worker = routers[1].worker
  /\ routers[2].worker # routers[1].worker

\* C7: the hook is gated.  A createProducer step taken while
\* aiHookConfig.enabled is false issues no POST /stream and emits nothing;
\* while the connector is disabled or has no endpoint, sendMediaStream issues
\* no request and a createProducer step emits no 'stream-sent' or
\* 'ai-stream-sent'; a POST /stream is issued only by a createProducer that
\* completes with the hook enabled and an endpoint set; 'ai-hook-producer' is
\* emitted only by a createProducer step taken with the hook enabled; and
\* 'stream-sent' / 'ai-stream-sent' are emitted only when an issued POST
\* comes back.
StreamEvents == {"stream-sent", "ai-stream-sent"}
NewEvents == {emitted'[k] : k \in (Len(emitted) + 1) .. Len(emitted')}

C7_HookGatedWhenDisabled ==
  [][/\ (ret'.op = "createProducer" /\ ~aiHookConfig.enabled)
          => posts' = posts /\ emitted' = emitted
     /\ (~config.enabled \/ config.endpoint = 0)
          => /\ \A x \in 1..MaxProducersH, roomId \in RoomIds, peerId \in PeerIds :
                   SendMediaStream(x, roomId, peerId) = posts
             /\ ret'.op = "createProducer"
                  => posts' = posts /\ \A e \in NewEvents : e.type \notin StreamEvents
     /\ Len(posts') # Len(posts)
          => /\ ret'.op = "createProducer" /\ ret'.kind = "resolved"
             /\ aiHookConfig.enabled /\ config.enabled /\ config.endpoint # 0
     /\ \A e \in NewEvents :
          /\ e.type = "ai-hook-producer"
               => ret'.op = "createProducer" /\ aiHookConfig.enabled
          /\ e.type \in StreamEvents
               => /\ ret'.op = "sendMediaStream"
                  /\ posts[ret'.val].state = "pending"
                  /\ posts[ret'.val].producerId = e.producerId]_vars

\* the hook was enabled for producer 1 and then disabled: producer 2 has just
\* been created without a POST and without an event
C7_Witness ==
  /\ ~aiHookConfig.enabled
  /\ ret.op = "createProducer" /\ ret.kind = "resolved" /\ ret.val = 2
  /\ producers[2].state = "open"
  /\ Len(posts) = 1
  /\ posts[1].producerId = 1
  /\ \A k \in Indices(emitted) :
        emitted[k].type \in StreamEvents \cup {"ai-hook-producer"}
        /\ emitted[k].producerId = 1

\* C8: exactly-once delivery.  Every producer has at most one POST /stream,
\* and for every POST that has come back exactly one 'stream-sent' and
\* exactly one 'ai-stream-sent' were emitted with its producer's ids, with
\* success = true if the POST succeeded.
EventsFor(type, x) ==
  {k \in Indices(emitted) : emitted[k].type = type /\ emitted[k].producerId = x}

C8_ExactlyOnce ==
  /\ \A i, j \in Indices(posts) : posts[i].producerId = posts[j].producerId => i = j
  /\ \A i \in Indices(posts) : posts[i].state # "pending" =>
        \A type \in StreamEvents :
           /\ Cardinality(EventsFor(type, posts[i].producerId)) = 1
           /\ \A k \in EventsFor(type, posts[i].producerId) :
                 /\ emitted[k].roomId = producers[posts[i].producerId].roomId
                 /\ emitted[k].peerId = producers[posts[i].producerId].peerId
                 /\ emitted[k].success = (posts[i].state = "ok")

\* C9: a failed POST /stream is isolated.  A POST is issued only in the step
\* in which createProducer returns the producer, registered under its peer;
\* the step in which that POST fails leaves rooms, peers, transports,
\* producers and consumers, the hook configuration and the connection status
\* as they were, with the producer still registered under its peer, settles
\* sendMediaStream without an error, and emits exactly 'stream-sent' and its
\* 'ai-stream-sent' with success = false and the producer's roomId, peerId
\* and producerId.
C9_HookFailureIsolated ==
  [][/\ Len(posts') # Len(posts)
          => /\ ret'.op = "createProducer" /\ ret'.kind = "resolved"
             /\ posts'[Len(posts')].producerId = ret'.val
             /\ producers'[ret'.val].state = "open"
             /\ ret'.val \in peers'[producers'[ret'.val].peer].producers
     /\ (ret'.op = "sendMediaStream" /\ posts[ret'.val].state = "pending"
           /\ posts'[ret'.val].state = "failed")
          => LET x == posts[ret'.val].producerId
             IN /\ graphVars' = graphVars
                /\ connectionStatus' = connectionStatus
                /\ aiHookConfig' = aiHookConfig /\ config' = config
                /\ ret'.kind = "resolved"
                /\ x \in peers'[producers'[x].peer].producers
                /\ emitted' = emitted \o
                     << Event("stream-sent", x, producers[x].roomId,
                              producers[x].peerId, FALSE),
                        Event("ai-stream-sent", x, producers[x].roomId,
                              producers[x].peerId, FALSE) >>]_vars

\* the endpoint answered the health probe, then the POST for producer 1
\* failed: the status is still "connected" and the last event says failure
C9_Witness ==
  /\ ret.op = "sendMediaStream"
  /\ posts[ret.val].state = "failed"
  /\ connectionStatus = "connected"
  /\ producers[posts[ret.val].producerId].state = "open"
  /\ Len(emitted) >= 2
  /\ emitted[Len(emitted)].type = "ai-stream-sent"
  /\ ~emitted[Len(emitted)].success

\* C10: the hook never fails producer creation.  A createProducer call whose
\* produce step succeeded (the producer is open in the engine) is never
\* rejected.
C10_ProducerAlwaysReturned ==
  ~(/\ ret.op = "createProducer" /\ ret.kind = "rejected"
    /\ producers[ret.val].state = "open")

\* C11: absent entities give a sentinel.  closeRoom on an id the registry
\* does not hold returns false; closePeer returns false when the room or the
\* peer is absent; createPeer returns null when the room is absent;
\* createWebRtcTransport returns null when the room or the peer is absent;
\* createProducer returns null when the room, the peer or the transport is
\* absent.  In each case the call returns in the caller's turn without
\* raising, issues no engine request and closes nothing, and the registry and
\* every peer's maps stay as they were.
Sentinel(kind, val) ==
  /\ ret'.kind = kind
  /\ ret'.val = val
  /\ graphVars' = graphVars
  /\ poolVars' = poolVars

C11_SentinelPolicy ==
  [][\A roomId \in RoomIds, peerId \in PeerIds :
       /\ (Called("closeRoom") /\ ret'.room = roomId /\ rooms[roomId] = 0)
            => Sentinel("bool", 0)
       /\ (Called("closePeer") /\ ret'.room = roomId /\ ret'.peer = peerId
             /\ PeerOf(roomId, peerId) = 0)
            => Sentinel("bool", 0)
       /\ (Called("createPeer") /\ ret'.room = roomId /\ rooms[roomId] = 0)
            => Sentinel("null", 0)
       /\ (Called("createWebRtcTransport") /\ ret'.room = roomId /\ ret'.peer = peerId
             /\ PeerOf(roomId, peerId) = 0)
            => Sentinel("null", 0)
       /\ (Called("createProducer") /\ ret'.room = roomId /\ ret'.peer = peerId
             /\ TransportOf(roomId, peerId, ret'.args[1]) = 0)
            => Sentinel("null", 0)]_vars

\* createProducer("r1", "p1", "t1") has just returned null with the room and
\* the peer present and no transport registered, after a room was closed
C11_Witness ==
  /\ ret.op = "createProducer" /\ ret.kind = "null"
  /\ ret.room = "r1" /\ ret.peer = "p1"
  /\ PeerOf("r1", "p1") # 0
  /\ TransportOf("r1", "p1", "t1") = 0
  /\ \E r \in Indices(routers) : routers[r].state = "closed"

\* C12: the hook status is a state machine over disconnected / connected /
\* failed.  It is disconnected as long as no health probe has been issued;
\* it changes only in the step in which a health probe issued by
\* setAIHookConfig comes back, to connected on HTTP 200 and to failed on any
\* other status, error or timeout; setAIHookConfig itself returns with the
\* status it found, and sendMediaStream and handleAIEvent leave it alone.
StatusOk ==
  /\ connectionStatus \in {"disconnected", "connected", "failed"}
  /\ probes = <<>> => connectionStatus = "disconnected"

C12_HookStatusMachine ==
  [][/\ StatusOk /\ StatusOk'
     /\ connectionStatus' # connectionStatus
          => /\ ret'.op = "testConnection"
             /\ probes[ret'.val].state = "pending"
     /\ ret'.op = "testConnection"
          => /\ probes[ret'.val].state = "pending" /\ probes'[ret'.val].state = "done"
             /\ connectionStatus' =
                  IF ret'.args[1] = 200 THEN "connected" ELSE "failed"
     /\ Len(probes') # Len(probes)
          => /\ Called("setAIHookConfig")
             /\ config'.enabled /\ config'.endpoint # 0
             /\ probes'[Len(probes')].state = "pending"
     /\ ret'.op \in {"setAIHookConfig", "sendMediaStream", "handleAIEvent",
                     "createProducer"}
          => connectionStatus' = connectionStatus]_vars

\* the first probe made the hook connected, the second one has just come
\* back with HTTP 500 and made it failed
C12_Witness ==
  /\ ret.op = "testConnection" /\ ret.val = 2 /\ ret.args[1] = 500
  /\ connectionStatus = "failed"
  /\ probes[1].state = "done" /\ probes[2].state = "done"
  /\ \E k \in Indices(emitted) : emitted[k].type = "ai-event"
  /\ \E i \in Indices(posts) : posts[i].state # "pending"

\* C13: configure without endpoint.  Right after setAIHookConfig with enabled
\* = true and no endpoint the hook status is disconnected.
C13_NoEndpointDisconnected ==
  (ret.op = "setAIHookConfig" /\ config.enabled /\ config.endpoint = 0)
     => connectionStatus = "disconnected"

\* C15: external events are relayed.  A handleAIEvent(event) call makes the
\* connector emit 'ai-event' once and the SFU emit 'ai-event' once, both with
\* the event it was given, whether the hook is enabled or not, and changes
\* neither the session graph nor the hook configuration, status, probes or
\* posts; nothing else emits 'ai-event'.
C15_AIEventRelay ==
  [][/\ Called("handleAIEvent")
          => /\ ret'.kind = "void"
             /\ emitted' = emitted \o
                  << [type |-> "ai-event", emitter |-> "connector", event |-> ret'.args[1]],
                     [type |-> "ai-event", emitter |-> "sfu", event |-> ret'.args[1]] >>
             /\ graphVars' = graphVars
             /\ poolVars' = poolVars
             /\ <<aiHookConfig, config, connectionStatus, probes, posts>>' =
                  <<aiHookConfig, config, connectionStatus, probes, posts>>
     /\ (\E e \in NewEvents : e.type = "ai-event") => Called("handleAIEvent")]_vars

\* with the hook disabled again after a producer was announced, an event has
\* just been relayed once by each emitter
C15_Witness ==
  /\ ret.op = "handleAIEvent" /\ ret.args[1] = "e2"
  /\ ~aiHookConfig.enabled
  /\ Len(emitted) >= 3
  /\ emitted[Len(emitted)] = AIEvent("sfu", "e2")
  /\ emitted[Len(emitted) - 1] = AIEvent("connector", "e2")
  /\ Cardinality(AIEventsIn(emitted, "sfu")) = 1
  /\ Cardinality(AIEventsIn(emitted, "connector")) = 1

\* C16: createRoom is idempotent under overlap.  Every routing context that
\* is open is the one the registry holds for its roomId, so overlapping
\* createRoom(roomId) calls never leave two routing contexts open for one
\* roomId.
C16_OneRouterPerRoom ==
  \A r \in OpenIn(routers) : rooms[routers[r].roomId] = r

\* C14: no cross-room consumption.  Every consume request was issued on a
\* transport of the Room whose transport carries its source producer, for
\* the roomId under which that producer was made; every consumer registered
\* under a peer of the room registered for R was made by createConsumer(R)
\* from a producer made by createProducer(R); a createConsumer(R) call issues
\* a consume request only for a producer that is registered, when the call
\* is made, under the producer peer it names in R; and createConsumer(R)
\* with the id of a producer made in another room returns null and changes
\* nothing.
SameRoom ==
  /\ \A c \in Indices(consumers) :
        LET x == consumers[c].producer
        IN /\ consumers[c].roomId = producers[x].roomId
           /\ transports[consumers[c].transport].router =
                transports[producers[x].transport].router
  /\ \A roomId \in RoomIds, peerId \in PeerIds :
        PeerOf(roomId, peerId) # 0 =>
           \A c \in peers[PeerOf(roomId, peerId)].consumers :
              /\ consumers[c].roomId = roomId
              /\ producers[consumers[c].producer].roomId = roomId

C14_NoCrossRoomConsumption ==
  [][/\ SameRoom /\ SameRoom'
     /\ Called("createConsumer") =>
          LET roomId == ret'.room
              pp     == ret'.args[1]
              x      == ret'.args[2]
          IN /\ ret'.kind = "pending"
                  => /\ PeerOf(roomId, pp) # 0
                     /\ x \in peers[PeerOf(roomId, pp)].producers
                     /\ producers[x].roomId = roomId
             /\ (x \in Indices(producers) /\ producers[x].roomId # roomId)
                  => ret'.kind = "null" /\ graphVars' = graphVars]_vars

\* producer 1 is registered under peer p1 of room r2 only; a
\* createConsumer("r1", "p1", "p1", 1, "t1") that canConsume would have
\* allowed has just returned null
C14_Witness ==
  /\ ret.op = "createConsumer" /\ ret.kind = "null"
  /\ ret.room = "r1" /\ ret.peer = "p1"
  /\ ret.args = <<"p1", 1, "t1", TRUE>>
  /\ CreateConsumerCheck("r1", "p1", "p1", 1, "t1", TRUE) = "producer"
  /\ PeerOf("r2", "p1") # 0
  /\ 1 \in peers[PeerOf("r2", "p1")].producers
  /\ producers[1].state = "open"

\* C17: closePeer cascades.  A closePeer(roomId, peerId) that finds the peer
\* returns true, closes every transport registered under the peer, closes
\* the producers and consumers made on those transports and takes them out
\* of the peer's maps, and removes the peer from the room; the registry, the
\* routing contexts and the other peers of the room, with their transports,
\* their producers and the engine handles behind them, stay as they were;
\* and a closePeer(roomId, peerId) made right after it returns false and
\* changes nothing.
PeerTransports(P) == {peers[P].transports[t] : t \in TransportIds} \ {0}

C17_ClosePeerCascade ==
  [][\A roomId \in RoomIds, peerId \in PeerIds :
       /\ (Called("closePeer") /\ ret'.room = roomId /\ ret'.peer = peerId
             /\ PeerOf(roomId, peerId) # 0)
            => LET R == rooms[roomId]
                   P == PeerOf(roomId, peerId)
                   T == PeerTransports(P)
               IN /\ ret'.val = 1
                  /\ \A t \in T : transports'[t].state = "closed"
                  /\ \A x \in Indices(producers) : producers[x].transport \in T
                        => /\ x \notin peers'[P].producers
                           /\ producers[x].state = "open" => producers'[x].state = "closed"
                  /\ \A c \in Indices(consumers) : consumers[c].transport \in T
                        => /\ c \notin peers'[P].consumers
                           /\ consumers[c].state = "open" => consumers'[c].state = "closed"
                  /\ roomPeers'[R][peerId] = 0
                  /\ rooms' = rooms
                  /\ routers' = routers
                  /\ \A q \in PeerIds \ {peerId} :
                        /\ roomPeers'[R][q] = roomPeers[R][q]
                        /\ roomPeers[R][q] # 0
                             => LET Q == roomPeers[R][q]
                                IN /\ peers'[Q].transports = peers[Q].transports
                                   /\ peers'[Q].producers = peers[Q].producers
                                   /\ \A t \in PeerTransports(Q) :
                                         transports'[t] = transports[t]
                                   /\ \A x \in peers[Q].producers :
                                         producers'[x] = producers[x]
       /\ (Called("closePeer") /\ ret'.room = roomId /\ ret'.peer = peerId
             /\ ret.op = "closePeer" /\ ret.room = roomId /\ ret.peer = peerId
             /\ ret.val = 1)
            => ret'.val = 0 /\ graphVars' = graphVars]_vars

\* closePeer("r1", "p1") has just returned true: p1's transport and producer
\* are closed, and p2 is still in the room with its open transport
C17_Witness ==
  /\ ret.op = "closePeer" /\ ret.val = 1 /\ ret.room = "r1" /\ ret.peer = "p1"
  /\ PeerOf("r1", "p1") = 0
  /\ PeerOf("r1", "p2") # 0
  /\ TransportOf("r1", "p2", "t1") # 0
  /\ transports[TransportOf("r1", "p2", "t1")].state = "open"
  /\ \E x \in Indices(producers) :
        /\ producers[x].peerId = "p1" /\ producers[x].state = "closed"
        /\ \A P \in Indices(peers) : x \notin peers[P].producers

\* C18 as stated: whenever the source producer of a registered consumer
\* closes, the consumer leaves its peer's consumers map with a
\* 'consumer-producer-closed' event: no consumer whose source producer is
\* closed leaves a consumers map without that event being emitted for it.
Registered(c) == c \in peers[consumers[c].peer].consumers

C18_EventOnSourceClose ==
  [][\A c \in Indices(consumers) :
       (Registered(c) /\ ~Registered(c)'
          /\ producers'[consumers[c].producer].state = "closed")
         => \E e \in NewEvents :
               e.type = "consumer-producer-closed" /\ e.producerId = c]_vars

\* C18: the source-producer close cascade, for a consumer that outlives its
\* producer.  When 'producerclose' reaches a consumer (the consumer is open
\* and its source producer is closed), the consumer is closed and removed
\* from its owning peer's consumers map and exactly one
\* 'consumer-producer-closed' event is emitted with the consumer's roomId,
\* the consuming peerId and the consumerId, while every other consumer,
\* every producer and every transport stays as it was; that event is emitted
\* by nothing else and at most once per consumer; a consumer that closes
\* with its own transport leaves the map without the event; and an open
\* consumer whose source producer is closed is eventually closed.
AtMostOneCloseEvent ==
  \A c \in Indices(consumers) :
     Cardinality(EventsFor("consumer-producer-closed", c)) <= 1

CloseOwed(c) ==
  IF c \in Indices(consumers)
  THEN consumers[c].state = "open" /\ producers[consumers[c].producer].state = "closed"
  ELSE FALSE
CloseDone(c) ==
  IF c \in Indices(consumers) THEN consumers[c].state = "closed" ELSE FALSE

C18_ProducerCloseCascade ==
  /\ [][/\ AtMostOneCloseEvent /\ AtMostOneCloseEvent'
        /\ ret'.op = "producerclose" =>
             LET c == ret'.val
             IN /\ consumers[c].state = "open"
                /\ producers[consumers[c].producer].state = "closed"
                /\ consumers'[c].state = "closed"
                /\ \A P \in Indices(peers) :
                      peers'[P].consumers = peers[P].consumers \ {c}
                /\ emitted' = Append(emitted,
                      Event("consumer-producer-closed", c, consumers[c].roomId,
                            peers[consumers[c].peer].id, TRUE))
                /\ \A d \in Indices(consumers) \ {c} : consumers'[d] = consumers[d]
                /\ producers' = producers
                /\ transports' = transports
        /\ (\E e \in NewEvents : e.type = "consumer-producer-closed")
             => ret'.op = "producerclose"
        /\ \A c \in Indices(consumers) :
             (consumers[c].state = "open" /\ consumers'[c].state = "closed"
                /\ ret'.op # "producerclose")
               => /\ transports'[consumers[c].transport].state = "closed"
                  /\ ~Registered(c)'
                  /\ emitted' = emitted]_vars
  /\ \A c \in 1..MaxConsumersP : CloseOwed(c) ~> CloseDone(c)

\* 'producerclose' has just removed consumer 1 of peer p2, whose transport is
\* still open, after closePeer closed the producing peer p1; the event was
\* emitted and consumer 2 is still registered
C18_Witness ==
  /\ ret.op = "producerclose" /\ ret.val = 1 /\ ret.peer = "p2"
  /\ Len(consumers) = 2
  /\ consumers[1].state = "closed"
  /\ transports[consumers[1].transport].state = "open"
  /\ PeerOf("r1", "p2") # 0
  /\ PeerOf("r1", "p1") = 0
  /\ peers[PeerOf("r1", "p2")].consumers = {2}
  /\ emitted[Len(emitted)] = Event("consumer-producer-closed", 1, "r1", "p2", TRUE)

\* C19: shutdown.  A close() made with no engine call in flight leaves the
\* registry empty and the worker list empty, with every worker of the list
\* closed, and every room that was registered has lost its peers and has its
\* routing context and its peers' transports closed, already by the loop
\* over the rooms that runs before the workers are closed; close() returns
\* without raising; and a close() made right after a close() changes
\* nothing.
NoneInFlight ==
  /\ initLeft = 0
  /\ \A r \in Indices(routers) : routers[r].state # "pending"
  /\ \A t \in Indices(transports) : transports[t].state # "pending"
  /\ \A x \in Indices(producers) : producers[x].state # "pending"
  /\ \A c \in Indices(consumers) : consumers[c].state # "pending"

C19_Shutdown ==
  [][Called("close") =>
       /\ ret'.kind = "void"
       /\ NoneInFlight =>
            LET live == {roomId \in RoomIds : rooms[roomId] # 0}
                g1   == CloseRoomsG(Graph, live)
            IN /\ \A roomId \in RoomIds : rooms'[roomId] = 0
               /\ workers' = <<>>
               /\ \A i \in Indices(workers) : workerObjs'[workers[i]].state = "closed"
               /\ \A w \in Indices(workerObjs) : workerObjs'[w].state = "closed"
               /\ \A roomId \in live :
                     /\ routers'[rooms[roomId]].state = "closed"
                     /\ g1.routers[rooms[roomId]].state = "closed"
                     /\ \A p \in PeerIds : roomPeers'[rooms[roomId]][p] = 0
                     /\ \A t \in RoomTransports(rooms[roomId]) :
                           /\ transports'[t].state = "closed"
                           /\ g1.transports[t].state = "closed"
       /\ ret.op = "close"
            => /\ graphVars' = graphVars
               /\ poolVars' = poolVars
               /\ hookVars' = hookVars]_vars

\* close() has just returned with nothing in flight: the room that had a peer
\* with a transport and a producer is gone and both workers are closed
C19_Witness ==
  /\ ret.op = "close"
  /\ NoneInFlight
  /\ workers = <<>>
  /\ \A w \in Indices(workerObjs) : workerObjs[w].state = "closed"
  /\ \A roomId \in RoomIds : rooms[roomId] = 0
  /\ Len(routers) = 1 /\ routers[1].state = "closed"
  /\ Len(transports) = 1 /\ transports[1].state = "closed"
  /\ Len(producers) = 1 /\ producers[1].state = "closed"

\* C20: the consumer construction protocol.  A createConsumer call issues
\* transport.consume only when canConsume answered true for the producer it
\* names, issues none when canConsume answered false, and asks for a paused
\* consumer; every consumer, requested or created, is paused.
C20_ConsumeProtocol ==
  [][/\ (Called("createConsumer") /\ ret'.kind = "pending")
          => /\ ret'.args[4]
             /\ consumers' = Append(consumers, consumers'[ret'.val])
             /\ consumers'[ret'.val].producer = ret'.args[2]
             /\ consumers'[ret'.val].paused
     /\ (Called("createConsumer") /\ ~ret'.args[4])
          => ret'.kind = "null" /\ consumers' = consumers
     /\ (ret'.op = "createConsumer" /\ ret'.kind = "resolved")
          => consumers'[ret'.val].state = "open" /\ consumers'[ret'.val].paused
     /\ \A c \in Indices(consumers') : consumers'[c].paused]_vars

\* createConsumer has just returned a consumer: it is open, paused and
\* registered under the consumer peer
C20_Witness ==
  /\ ret.op = "createConsumer" /\ ret.kind = "resolved"
  /\ consumers[ret.val].state = "open"
  /\ consumers[ret.val].paused
  /\ producers[consumers[ret.val].producer].state = "open"
  /\ PeerOf(ret.room, ret.peer) # 0
  /\ ret.val \in peers[PeerOf(ret.room, ret.peer)].consumers

\* the step in which the engine rejects request i of the sequence reqs
\* (reqs2 is the sequence after the step)
Fails(reqs, reqs2, i) == reqs[i].state = "pending" /\ reqs2[i].state = "failed"

\* the registry, the peer maps of every Room and the maps of every Peer are
\* as they were, and the hook has neither emitted nor posted
Untouched ==
  /\ rooms' = rooms
  /\ \A R \in Indices(roomPeers) : roomPeers'[R] = roomPeers[R]
  /\ peers' = peers
  /\ posts' = posts
  /\ emitted' = emitted

\* C21: a failure of the engine is reported, and leaves no trace.  When the
\* engine rejects the createRouter of createRoom, the createWebRtcTransport,
\* the produce of createProducer or the consume of createConsumer, the
\* caller's promise is rejected (an outcome that is not null), the registry
\* and every peer's maps are as they were before the call, and no hook event
\* or POST is made; a createRoom that finds no worker is rejected likewise.
\* Neither the step that issued the request nor the step that fails changes
\* the registry or the maps, and a failed entity is never registered.
C21_EngineFailureClean ==
  [][/\ \A r \in Indices(routers) : Fails(routers, routers', r)
          => /\ ret'.op = "createRoom" /\ ret'.kind = "rejected" /\ ret'.val = r
             /\ ret'.kind # "null"
             /\ Untouched
     /\ \A t \in Indices(transports) : Fails(transports, transports', t)
          => /\ ret'.op = "createWebRtcTransport" /\ ret'.kind = "rejected"
             /\ ret'.val = t
             /\ ret'.kind # "null"
             /\ Untouched
     /\ \A p \in Indices(producers) : Fails(producers, producers', p)
          => /\ ret'.op = "createProducer" /\ ret'.kind = "rejected" /\ ret'.val = p
             /\ ret'.kind # "null"
             /\ Untouched
     /\ \A c \in Indices(consumers) : Fails(consumers, consumers', c)
          => /\ ret'.op = "createConsumer" /\ ret'.kind = "rejected" /\ ret'.val = c
             /\ ret'.kind # "null"
             /\ Untouched
     /\ (ret'.kind \in {"pending", "throw"}
         /\ ret'.op \in {"createRoom", "createWebRtcTransport",
                         "createProducer", "createConsumer"})
          => Untouched
     /\ \A id \in RoomIds :
          rooms'[id] # 0 => routers'[rooms'[id]].state # "failed"
     /\ \A P \in Indices(peers') :
          /\ \A tid \in TransportIds :
               peers'[P].transports[tid] # 0
                 => transports'[peers'[P].transports[tid]].state # "failed"
          /\ \A p \in peers'[P].producers : producers'[p].state # "failed"
          /\ \A c \in peers'[P].consumers : consumers'[c].state # "failed"]_vars

\* createProducer has just been rejected by the engine while the hook is
\* enabled with an endpoint: the producer is registered nowhere, and nothing
\* was emitted or posted
C21_Witness ==
  /\ ret.op = "createProducer" /\ ret.kind = "rejected"
  /\ producers[ret.val].state = "failed"
  /\ aiHookConfig.enabled /\ aiHookConfig.endpoint # 0
  /\ \A P \in Indices(peers) : ret.val \notin peers[P].producers
  /\ posts = <<>>
  /\ emitted = <<>>

\* C22: worker death.  A createRoom that picks a worker for a new room never
\* picks one that has already reported 'died'.  (The claim goes on: after a
\* 'died' the process eventually exits and no worker is spawned in place of
\* the dead one.)
C22_NoDeadWorkerPicked ==
  [][(Called("createRoom") /\ ret'.kind = "pending")
        => workerObjs[routers'[ret'.val].worker].state # "died"]_vars

\* C23: fresh entity on identifier reuse.  At any time at most one live Room
\* exists per roomId: no two Room objects whose routing context is open (made
\* by createRoom and not closed since) carry the same roomId.  (The claim
\* also says that createRoom after closeRoom and createPeer after closePeer
\* build a new, empty entity.)
C23_OneLiveRoomPerId ==
  \A r1 \in OpenIn(routers), r2 \in OpenIn(routers) :
     routers[r1].roomId = routers[r2].roomId => r1 = r2

\* C24: the hook status reflects the current configuration.  Whenever the
\* status is "connected", the current configuration is enabled and has an
\* endpoint; in particular the status is not "connected" after
\* setConfig({enabled: false}), whichever of the call and the probe of an
\* earlier configuration comes last.
C24_StatusReflectsConfig ==
  connectionStatus = "connected" => (config.enabled /\ config.endpoint # 0)

\* C25: no transport leak on closePeer.  When closePeer returns true, every
\* transport that createWebRtcTransport created and returned for that peer
\* and that was still open is closed, also when two of them were made under
\* the same transportId.
C25_NoTransportLeak ==
  [][(Called("closePeer") /\ ret'.val = 1)
        => \A t \in OpenIn(transports) :
              transports[t].peer = PeerOf(ret'.room, ret'.peer)
                => transports'[t].state = "closed"]_vars

\* C26: every room in the registry is bound to a routing context that is
\* open, on a worker that is in the pool and not closed; so the registry is
\* empty whenever the pool is.
C26_RegistryBound ==
  \A id \in RoomIds :
     rooms[id] # 0 =>
        /\ routers[rooms[id]].state = "open"
        /\ \E i \in Indices(workers) : workers[i] = routers[rooms[id]].worker
        /\ workerObjs[routers[rooms[id]].worker].state = "open"
=============================================================================
